---- MODULE Spec2Model ----
(***************************************************************************)
(* Polytope names of miratope-lang (src/miratope-lang/src/name.rs): the    *)
(* Name syntax tree, the data capsules AbsData / ConData, the validity     *)
(* predicate and the construction operations that keep names in normal     *)
(* form.  A Name is a record whose field "kind" is the enum variant.       *)
(***************************************************************************)
EXTENDS Integers, Sequences, FiniteSets, TLC

VARIABLES
    ty,     \* the NameType instantiation T: "Abs" or "Con"
    cur,    \* the Name most recently returned by a construction operation
    vec,    \* the Vec<Name<T>> the caller is assembling for a multi-operation
    call    \* the construction operation that returned cur, with its arguments

vars == <<ty, cur, vec, call>>

----------------------------------------------------------------------------
(* Bounds of the model. *)

\* Centers are the points 0 .. MaxCenter of a line.
MaxCenter == 2
\* Side counts given to polygon: 2 .. MaxSides.
MaxSides == 5
\* Facet counts given to generic and dual: 2 .. MaxFacet.
MaxFacet == 3
\* Ranks given to the constructors: -1 .. MaxRank.
MaxRank == 3
\* The most nodes of a Name an operation returns.
MaxSize == 3
\* The longest Vec handed to a multi-operation.
MaxVec == 2
\* The most nodes the caller holds, in the Vec and in the name it builds next,
\* while it assembles a Vec.
MaxHeld == 2

(* Program constants. *)

\* Float::EPS, in units of the spacing of the centers: two neighbouring
\* centers are closer than EPS without being equal.
EPS == 2
\* The largest rank of a valid Generic name.
MaxGenericRank == 20

----------------------------------------------------------------------------
(* NameType and NameData. *)

NameTypes == {"Abs", "Con"}

is_abstract(T) == T = "Abs"

\* AbsData<T>(PhantomData<T>) stores nothing; ConData<T>(T) stores one value.
AbsData == <<>>
ConData(value) == <<value>>

\* new keeping the value in the phantom capsule too.
new_keeps_value(T, value) == ConData(value)

new(T, value) == IF is_abstract(T) THEN AbsData ELSE ConData(value)

contains(T, data, value) == IF is_abstract(T) THEN TRUE ELSE data[1] = value

satisfies(T, data, f(_)) == IF is_abstract(T) THEN TRUE ELSE f(data[1])

(* Regular. *)

RegularYes(center) == [kind |-> "Yes", center |-> center]
RegularNo == [kind |-> "No"]

is_yes(r) == r.kind = "Yes"

\* <T::DataRegular as Default>::default(): the capsule of Regular::default().
DefaultRegular(T) == new(T, RegularNo)

\* (c - original_center).norm() of two points of the line.
Norm(c, original_center) ==
    IF c >= original_center THEN c - original_center ELSE original_center - c

----------------------------------------------------------------------------
(* The variants of Name. *)

Nullitope == [kind |-> "Nullitope"]
Point == [kind |-> "Point"]
Dyad == [kind |-> "Dyad"]
Triangle(regular) == [kind |-> "Triangle", regular |-> regular]
Square == [kind |-> "Square"]
Rectangle == [kind |-> "Rectangle"]
Orthodiagonal == [kind |-> "Orthodiagonal"]
Polygon(regular, n) == [kind |-> "Polygon", regular |-> regular, n |-> n]
Pyramid(base) == [kind |-> "Pyramid", base |-> base]
Prism(base) == [kind |-> "Prism", base |-> base]
Tegum(base) == [kind |-> "Tegum", base |-> base]
Multipyramid(bases) == [kind |-> "Multipyramid", bases |-> bases]
Multiprism(bases) == [kind |-> "Multiprism", bases |-> bases]
Multitegum(bases) == [kind |-> "Multitegum", bases |-> bases]
Multicomb(bases) == [kind |-> "Multicomb", bases |-> bases]
Antiprism(base) == [kind |-> "Antiprism", base |-> base]
Antitegum(base, center) == [kind |-> "Antitegum", base |-> base, center |-> center]
Petrial(base) == [kind |-> "Petrial", base |-> base]
Dual(base, center) == [kind |-> "Dual", base |-> base, center |-> center]
Simplex(regular, rank) == [kind |-> "Simplex", regular |-> regular, rank |-> rank]
Hyperblock(regular, rank) == [kind |-> "Hyperblock", regular |-> regular, rank |-> rank]
Orthoplex(regular, rank) == [kind |-> "Orthoplex", regular |-> regular, rank |-> rank]
Generic(facet_count, rank) == [kind |-> "Generic", facet_count |-> facet_count, rank |-> rank]
Small(base) == [kind |-> "Small", base |-> base]
Great(base) == [kind |-> "Great", base |-> base]
Stellated(base) == [kind |-> "Stellated", base |-> base]

MultiKinds == {"Multipyramid", "Multiprism", "Multitegum", "Multicomb"}
BoxKinds == {"Pyramid", "Prism", "Tegum", "Antiprism", "Antitegum", "Petrial",
             "Dual", "Small", "Great", "Stellated"}

\* The sequence of the direct children of a name.
Children(name) ==
    IF name.kind \in MultiKinds THEN name.bases
    ELSE IF name.kind \in BoxKinds THEN <<name.base>>
    ELSE <<>>

----------------------------------------------------------------------------
(* Name::is_valid. *)

\* is_valid with the irregular bound for every Polygon.
is_valid_one_polygon_bound(T, self) ==
    CASE self.kind = "Polygon" ->
            IF self.n = 2 THEN TRUE ELSE self.n >= 4
      [] self.kind \in {"Simplex", "Hyperblock", "Orthoplex"} -> self.rank >= 3
      [] self.kind \in MultiKinds ->
            IF Len(self.bases) < 2 THEN FALSE
            ELSE \A i \in 1..Len(self.bases) : self.bases[i].kind # self.kind
      [] self.kind = "Generic" ->
            self.facet_count >= 2 /\ self.rank >= 3 /\ self.rank <= MaxGenericRank
      [] OTHER -> TRUE

is_valid(T, self) ==
    CASE self.kind = "Polygon" ->
            IF self.n = 2 THEN TRUE
            ELSE IF satisfies(T, self.regular, is_yes) THEN self.n >= 5
            ELSE self.n >= 4
      [] self.kind \in {"Simplex", "Hyperblock", "Orthoplex"} -> self.rank >= 3
      [] self.kind \in MultiKinds ->
            IF Len(self.bases) < 2 THEN FALSE
            ELSE \A i \in 1..Len(self.bases) : self.bases[i].kind # self.kind
      [] self.kind = "Generic" ->
            self.facet_count >= 2 /\ self.rank >= 3 /\ self.rank <= MaxGenericRank
      [] OTHER -> TRUE

----------------------------------------------------------------------------
(* The constructors of the polygon family and of the regular families. *)

rectangle(T) == IF is_abstract(T) THEN Square ELSE Rectangle

orthodiagonal(T) == IF is_abstract(T) THEN Square ELSE Orthodiagonal

simplex(T, regular, rank) ==
    CASE rank = -1 -> Nullitope
      [] rank = 0 -> Point
      [] rank = 1 -> Dyad
      [] rank = 2 -> Triangle(regular)
      [] OTHER -> Simplex(regular, rank)

hyperblock(T, regular, rank) ==
    CASE rank = -1 -> Nullitope
      [] rank = 0 -> Point
      [] rank = 1 -> Dyad
      [] rank = 2 -> rectangle(T)
      [] OTHER -> Hyperblock(regular, rank)

orthoplex(T, regular, rank) ==
    CASE rank = -1 -> Nullitope
      [] rank = 0 -> Point
      [] rank = 1 -> Dyad
      [] rank = 2 -> orthodiagonal(T)
      [] OTHER -> Orthoplex(regular, rank)

polygon(T, regular, n) ==
    CASE n = 3 -> Triangle(regular)
      [] n = 4 -> IF satisfies(T, regular, is_yes) THEN Square
                  ELSE Polygon(regular, n)
      [] OTHER -> Polygon(regular, n)

generic(T, n, rank) ==
    CASE rank = -1 -> Nullitope
      [] rank = 0 -> Point
      [] rank = 1 -> Dyad
      [] rank = 2 -> polygon(T, DefaultRegular(T), n)
      [] OTHER -> Generic(n, rank)

----------------------------------------------------------------------------
(* The multi-operation mergers.  Each walks its Vec once from the front;   *)
(* the walk carries new_bases and the running count, and for multiprism    *)
(* and multitegum stops at the first Nullitope (the early return).         *)

RECURSIVE MultipyramidWalk(_, _, _, _)
MultipyramidWalk(bases, i, new_bases, pyramid_count) ==
    IF i > Len(bases) THEN [new_bases |-> new_bases, pyramid_count |-> pyramid_count]
    ELSE LET base == bases[i] IN
        CASE base.kind = "Nullitope" ->
                MultipyramidWalk(bases, i + 1, new_bases, pyramid_count)
          [] base.kind = "Point" ->
                MultipyramidWalk(bases, i + 1, new_bases, pyramid_count + 1)
          [] base.kind = "Dyad" ->
                MultipyramidWalk(bases, i + 1, new_bases, pyramid_count + 2)
          [] base.kind = "Triangle" ->
                MultipyramidWalk(bases, i + 1, new_bases, pyramid_count + 3)
          [] base.kind = "Simplex" ->
                MultipyramidWalk(bases, i + 1, new_bases, pyramid_count + (base.rank + 1))
          [] base.kind = "Multipyramid" ->
                MultipyramidWalk(bases, i + 1, new_bases \o base.bases, pyramid_count)
          [] OTHER ->
                MultipyramidWalk(bases, i + 1, Append(new_bases, base), pyramid_count)

\* multipyramid appending the combined simplex from one absorbed unit on.
multipyramid_from_one(T, bases) ==
    LET walk == MultipyramidWalk(bases, 1, <<>>, 0)
        pyramid_count == walk.pyramid_count
        new_bases ==
            IF pyramid_count >= 1
            THEN Append(walk.new_bases, simplex(T, DefaultRegular(T), pyramid_count - 1))
            ELSE walk.new_bases
        result ==
            CASE Len(new_bases) = 0 -> Nullitope
              [] Len(new_bases) = 1 -> new_bases[1]
              [] OTHER -> Multipyramid(new_bases)
    IN  IF pyramid_count = 1 THEN Pyramid(result) ELSE result

\* multipyramid without the Pyramid of a single absorbed unit.
multipyramid_no_wrap(T, bases) ==
    LET walk == MultipyramidWalk(bases, 1, <<>>, 0)
        pyramid_count == walk.pyramid_count
        new_bases ==
            IF pyramid_count >= 2
            THEN Append(walk.new_bases, simplex(T, DefaultRegular(T), pyramid_count - 1))
            ELSE walk.new_bases
    IN  CASE Len(new_bases) = 0 -> Nullitope
          [] Len(new_bases) = 1 -> new_bases[1]
          [] OTHER -> Multipyramid(new_bases)

multipyramid(T, bases) ==
    LET walk == MultipyramidWalk(bases, 1, <<>>, 0)
        pyramid_count == walk.pyramid_count
        new_bases ==
            IF pyramid_count >= 2
            THEN Append(walk.new_bases, simplex(T, DefaultRegular(T), pyramid_count - 1))
            ELSE walk.new_bases
        result ==
            CASE Len(new_bases) = 0 -> Nullitope
              [] Len(new_bases) = 1 -> new_bases[1]
              [] OTHER -> Multipyramid(new_bases)
    IN  IF pyramid_count = 1 THEN Pyramid(result) ELSE result

RECURSIVE MultiprismWalk(_, _, _, _)
MultiprismWalk(bases, i, new_bases, prism_count) ==
    IF i > Len(bases)
    THEN [nullitope |-> FALSE, new_bases |-> new_bases, prism_count |-> prism_count]
    ELSE LET name == bases[i] IN
        CASE name.kind = "Nullitope" ->
                [nullitope |-> TRUE, new_bases |-> new_bases, prism_count |-> prism_count]
          [] name.kind = "Point" ->
                MultiprismWalk(bases, i + 1, new_bases, prism_count)
          [] name.kind = "Dyad" ->
                MultiprismWalk(bases, i + 1, new_bases, prism_count + 1)
          [] name.kind \in {"Square", "Rectangle"} ->
                MultiprismWalk(bases, i + 1, new_bases, prism_count + 2)
          [] name.kind = "Hyperblock" ->
                MultiprismWalk(bases, i + 1, new_bases, prism_count + name.rank)
          [] name.kind = "Multiprism" ->
                MultiprismWalk(bases, i + 1, new_bases \o name.bases, prism_count)
          [] OTHER ->
                MultiprismWalk(bases, i + 1, Append(new_bases, name), prism_count)

\* multiprism leaving the walk at a Nullitope without returning it.
multiprism_break(T, bases) ==
    LET walk == MultiprismWalk(bases, 1, <<>>, 0)
        prism_count == walk.prism_count
        new_bases ==
            IF prism_count >= 2
            THEN Append(walk.new_bases, hyperblock(T, DefaultRegular(T), prism_count))
            ELSE walk.new_bases
        result ==
            CASE Len(new_bases) = 0 -> Point
              [] Len(new_bases) = 1 -> new_bases[1]
              [] OTHER -> Multiprism(new_bases)
    IN  IF prism_count = 1 THEN Prism(result) ELSE result

\* multiprism with the combined hyperblock before the other bases.
multiprism_combined_first(T, bases) ==
    LET walk == MultiprismWalk(bases, 1, <<>>, 0)
        prism_count == walk.prism_count
        new_bases ==
            IF prism_count >= 2
            THEN <<hyperblock(T, DefaultRegular(T), prism_count)>> \o walk.new_bases
            ELSE walk.new_bases
        result ==
            CASE Len(new_bases) = 0 -> Point
              [] Len(new_bases) = 1 -> new_bases[1]
              [] OTHER -> Multiprism(new_bases)
    IN  IF walk.nullitope THEN Nullitope
        ELSE IF prism_count = 1 THEN Prism(result) ELSE result

multiprism(T, bases) ==
    LET walk == MultiprismWalk(bases, 1, <<>>, 0)
        prism_count == walk.prism_count
        new_bases ==
            IF prism_count >= 2
            THEN Append(walk.new_bases, hyperblock(T, DefaultRegular(T), prism_count))
            ELSE walk.new_bases
        result ==
            CASE Len(new_bases) = 0 -> Point
              [] Len(new_bases) = 1 -> new_bases[1]
              [] OTHER -> Multiprism(new_bases)
    IN  IF walk.nullitope THEN Nullitope
        ELSE IF prism_count = 1 THEN Prism(result) ELSE result

RECURSIVE MultitegumWalk(_, _, _, _)
MultitegumWalk(bases, i, new_bases, tegum_count) ==
    IF i > Len(bases)
    THEN [nullitope |-> FALSE, new_bases |-> new_bases, tegum_count |-> tegum_count]
    ELSE LET base == bases[i] IN
        CASE base.kind = "Nullitope" ->
                [nullitope |-> TRUE, new_bases |-> new_bases, tegum_count |-> tegum_count]
          [] base.kind = "Point" ->
                MultitegumWalk(bases, i + 1, new_bases, tegum_count)
          [] base.kind = "Dyad" ->
                MultitegumWalk(bases, i + 1, new_bases, tegum_count + 1)
          [] base.kind \in {"Square", "Orthodiagonal"} ->
                MultitegumWalk(bases, i + 1, new_bases, tegum_count + 2)
          [] base.kind = "Orthoplex" ->
                MultitegumWalk(bases, i + 1, new_bases, tegum_count + base.rank)
          [] base.kind = "Multitegum" ->
                MultitegumWalk(bases, i + 1, new_bases \o base.bases, tegum_count)
          [] OTHER ->
                MultitegumWalk(bases, i + 1, Append(new_bases, base), tegum_count)

multitegum(T, bases) ==
    LET walk == MultitegumWalk(bases, 1, <<>>, 0)
        tegum_count == walk.tegum_count
        new_bases ==
            IF tegum_count >= 2
            THEN Append(walk.new_bases, orthoplex(T, DefaultRegular(T), tegum_count))
            ELSE walk.new_bases
        result ==
            CASE Len(new_bases) = 0 -> Point
              [] Len(new_bases) = 1 -> new_bases[1]
              [] OTHER -> Multitegum(new_bases)
    IN  IF walk.nullitope THEN Nullitope
        ELSE IF tegum_count = 1 THEN Tegum(result) ELSE result

RECURSIVE MulticombWalk(_, _, _)
MulticombWalk(bases, i, new_bases) ==
    IF i > Len(bases) THEN new_bases
    ELSE IF bases[i].kind = "Multicomb"
         THEN MulticombWalk(bases, i + 1, new_bases \o bases[i].bases)
         ELSE MulticombWalk(bases, i + 1, Append(new_bases, bases[i]))

multicomb(T, bases) ==
    LET new_bases == MulticombWalk(bases, 1, <<>>) IN
    CASE Len(new_bases) = 0 -> Point
      [] Len(new_bases) = 1 -> new_bases[1]
      [] OTHER -> Multicomb(new_bases)

----------------------------------------------------------------------------
(* The unary modifiers. *)

\* PyramidOfSimplex forgetting to raise the rank.
PyramidOfSimplexSameRank(T, regular, rank) ==
    IF contains(T, regular, RegularNo) THEN Simplex(regular, rank)
    ELSE Pyramid(Simplex(regular, rank))

\* PyramidOfSimplex wrapping whatever the regularity.
PyramidOfSimplexWrap(T, regular, rank) == Pyramid(Simplex(regular, rank))

\* The Simplex arm of pyramid.
PyramidOfSimplex(T, regular, rank) ==
    IF contains(T, regular, RegularNo) THEN Simplex(regular, rank + 1)
    ELSE Pyramid(Simplex(regular, rank))

\* PyramidOfPyramidNode nesting the Pyramid nodes.
PyramidOfPyramidNested(T, base) == Pyramid(Pyramid(base))

\* The Pyramid arm of pyramid: base is the field of self.
PyramidOfPyramidNode(T, base) == multipyramid(T, <<Dyad, base>>)

pyramid(T, self) ==
    CASE self.kind = "Nullitope" -> Point
      [] self.kind = "Point" -> Dyad
      [] self.kind = "Dyad" -> Triangle(DefaultRegular(T))
      [] self.kind = "Triangle" ->
            IF contains(T, self.regular, RegularNo) THEN Simplex(self.regular, 3)
            ELSE Pyramid(Triangle(self.regular))
      [] self.kind = "Simplex" -> PyramidOfSimplex(T, self.regular, self.rank)
      [] self.kind = "Pyramid" -> PyramidOfPyramidNode(T, self.base)
      [] self.kind = "Multipyramid" -> multipyramid(T, Append(self.bases, Point))
      [] OTHER -> Pyramid(self)

prism(T, self) ==
    CASE self.kind = "Nullitope" -> Nullitope
      [] self.kind = "Point" -> Dyad
      [] self.kind = "Dyad" -> rectangle(T)
      [] self.kind = "Rectangle" -> Hyperblock(DefaultRegular(T), 3)
      [] self.kind = "Hyperblock" ->
            IF contains(T, self.regular, RegularNo)
            THEN Hyperblock(self.regular, self.rank + 1)
            ELSE Prism(Hyperblock(self.regular, self.rank))
      [] self.kind = "Prism" -> multiprism(T, <<rectangle(T), self.base>>)
      [] self.kind = "Multiprism" -> multiprism(T, Append(self.bases, Dyad))
      [] OTHER -> Prism(self)

tegum(T, self) ==
    CASE self.kind = "Nullitope" -> Nullitope
      [] self.kind = "Point" -> Dyad
      [] self.kind = "Dyad" -> orthodiagonal(T)
      [] self.kind = "Orthodiagonal" -> Orthoplex(DefaultRegular(T), 3)
      [] self.kind = "Orthoplex" ->
            IF contains(T, self.regular, RegularNo)
            THEN Orthoplex(self.regular, self.rank + 1)
            ELSE Tegum(Orthoplex(self.regular, self.rank))
      [] self.kind = "Tegum" -> multitegum(T, <<orthodiagonal(T), self.base>>)
      [] self.kind = "Multitegum" -> multitegum(T, Append(self.bases, Dyad))
      [] OTHER -> Tegum(self)

antiprism(T, self) ==
    CASE self.kind = "Nullitope" -> Point
      [] self.kind = "Point" -> Dyad
      [] self.kind = "Dyad" -> Orthodiagonal
      [] self.kind = "Simplex" -> Orthoplex(DefaultRegular(T), self.rank + 1)
      [] OTHER -> Antiprism(self)

\* petrial wrapping a Petrial once more.
petrial_wrap(T, self) == Petrial(self)

petrial(T, self) ==
    IF self.kind = "Petrial" THEN self.base ELSE Petrial(self)

----------------------------------------------------------------------------
(* Name::dual. *)

\* regular_dual! keeping the capsule whatever the centers.
regular_dual_keep(T, regular, center) == regular

\* regular_dual!: the regularity capsule of the dual of a regular-capable
\* shape, kept when the shape is not regular or is regular about a center
\* closer than EPS to the given one, the default one otherwise.
regular_dual(T, regular, center) ==
    IF satisfies(T, regular,
           LAMBDA r : IF r.kind = "Yes"
                      THEN satisfies(T, center, LAMBDA c : Norm(c, r.center) < EPS)
                      ELSE TRUE)
    THEN regular
    ELSE DefaultRegular(T)

\* DualKind re-wrapping with the variant itself.
DualKindSame(kind) == kind

\* The variant a modifier_dual! or multimodifier_dual! arm re-wraps with.
DualKind(kind) ==
    CASE kind = "Pyramid" -> "Pyramid"
      [] kind = "Prism" -> "Tegum"
      [] kind = "Tegum" -> "Prism"
      [] kind = "Multipyramid" -> "Multipyramid"
      [] kind = "Multiprism" -> "Multitegum"
      [] kind = "Multitegum" -> "Multiprism"
      [] kind = "Multicomb" -> "Multicomb"

\* DualOfDual never cancelling.
DualOfDualNeverCancel(base, original_center, center, facet_count, rank) ==
    Generic(facet_count, rank)

\* DualOfDual cancelling whatever the centers.
DualOfDualAlwaysCancel(base, original_center, center, facet_count, rank) == base

\* The Dual arm of dual: base and original_center are the fields of self.
DualOfDual(base, original_center, center, facet_count, rank) ==
    IF center = original_center THEN base
    ELSE Generic(facet_count, rank)

\* DualOfAntitegum giving the Antiprism whatever the centers.
DualOfAntitegumAlwaysAntiprism(base, original_center, center) == Antiprism(base)

\* The Antitegum arm of dual: base and original_center are the fields of self.
DualOfAntitegum(base, original_center, center) ==
    IF center = original_center THEN Antiprism(base)
    ELSE Dual(Antitegum(base, original_center), center)

RECURSIVE dual(_, _, _, _, _)
RECURSIVE DualEach(_, _, _, _, _, _)
\* bases.into_iter().map(|base| base.dual(center.clone(), facet_count, rank))
\* .collect(), from the i-th base on.
DualEach(T, bases, i, center, facet_count, rank) ==
    IF i > Len(bases) THEN <<>>
    ELSE <<dual(T, bases[i], center, facet_count, rank)>>
         \o DualEach(T, bases, i + 1, center, facet_count, rank)

dual(T, self, center, facet_count, rank) ==
    CASE self.kind \in {"Nullitope", "Point", "Dyad"} -> self
      [] self.kind = "Triangle" -> Triangle(regular_dual(T, self.regular, center))
      [] self.kind \in {"Square", "Rectangle"} -> orthodiagonal(T)
      [] self.kind = "Orthodiagonal" -> polygon(T, DefaultRegular(T), 4)
      [] self.kind = "Dual" ->
            DualOfDual(self.base, self.center, center, facet_count, rank)
      [] self.kind = "Polygon" ->
            Polygon(regular_dual(T, self.regular, center), self.n)
      [] self.kind = "Simplex" ->
            Simplex(regular_dual(T, self.regular, center), self.rank)
      [] self.kind = "Hyperblock" ->
            Orthoplex(regular_dual(T, self.regular, center), self.rank)
      [] self.kind = "Orthoplex" ->
            Hyperblock(regular_dual(T, self.regular, center), self.rank)
      [] self.kind \in {"Pyramid", "Prism", "Tegum"} ->
            IF is_abstract(T)
            THEN [kind |-> DualKind(self.kind),
                  base |-> dual(T, self.base, center, facet_count, rank)]
            ELSE Dual(self, center)
      [] self.kind = "Antiprism" -> Antitegum(self.base, center)
      [] self.kind = "Antitegum" -> DualOfAntitegum(self.base, self.center, center)
      [] self.kind \in MultiKinds ->
            IF is_abstract(T)
            THEN [kind |-> DualKind(self.kind),
                  bases |-> DualEach(T, self.bases, 1, center, facet_count, rank)]
            ELSE Dual(self, center)
      [] OTHER -> Dual(self, center)

----------------------------------------------------------------------------
(* The textual encoding of a Name and from_src.  A text is the sequence of  *)
(* its lexemes; the encoding is the one the Serialize and Deserialize       *)
(* derives give through ron: a variant is written by its name, its fields   *)
(* between parentheses, a struct variant's fields by name, a newtype struct *)
(* between parentheses, a Vec between brackets, a number in decimal.        *)

UnitVariants == {"Nullitope", "Point", "Dyad", "Square", "Rectangle", "Orthodiagonal"}
TupleVariants == {"Pyramid", "Prism", "Tegum", "Multipyramid", "Multiprism",
                  "Multitegum", "Multicomb", "Small", "Great", "Stellated"}
StructVariants == {"Triangle", "Polygon", "Antiprism", "Antitegum", "Petrial", "Dual",
                   "Simplex", "Hyperblock", "Orthoplex", "Generic"}
Variants == UnitVariants \cup TupleVariants \cup StructVariants

Field(name, type) == [name |-> name, type |-> type]

\* The fields of a variant, in the order of their declaration.
Fields(kind) ==
    CASE kind \in UnitVariants -> <<>>
      [] kind = "Triangle" -> <<Field("regular", "DataRegular")>>
      [] kind = "Polygon" -> <<Field("regular", "DataRegular"), Field("n", "usize")>>
      [] kind \in {"Pyramid", "Prism", "Tegum", "Small", "Great", "Stellated"} ->
            <<Field("base", "Name")>>
      [] kind \in MultiKinds -> <<Field("bases", "Vec")>>
      [] kind \in {"Antiprism", "Petrial"} -> <<Field("base", "Name")>>
      [] kind \in {"Antitegum", "Dual"} ->
            <<Field("base", "Name"), Field("center", "DataPoint")>>
      [] kind \in {"Simplex", "Hyperblock", "Orthoplex"} ->
            <<Field("regular", "DataRegular"), Field("rank", "Rank")>>
      [] kind = "Generic" -> <<Field("facet_count", "usize"), Field("rank", "Rank")>>

\* The numbers a usize, a Rank or a coordinate is read from.
UsizeNumbers == 0..(MaxGenericRank + 1)
RankNumbers == -1..(MaxGenericRank + 1)
FloatNumbers == -1..(MaxGenericRank + 1)

\* What precedes the i-th field of a variant.
FieldPrefix(kind, i) ==
    (IF i > 1 THEN <<",">> ELSE <<>>)
    \o (IF kind \in StructVariants THEN <<Fields(kind)[i].name, ":">> ELSE <<>>)

EncodeRegular(regular) ==
    IF is_yes(regular)
    THEN <<"Yes", "(", "center", ":", ToString(regular.center), ")">>
    ELSE <<"No">>

RECURSIVE EncodeName(_, _)
RECURSIVE EncodeValue(_, _, _)
RECURSIVE EncodeFields(_, _, _)
RECURSIVE EncodeVec(_, _, _)

EncodeName(T, name) ==
    IF name.kind \in UnitVariants THEN <<name.kind>>
    ELSE <<name.kind, "(">> \o EncodeFields(T, name, 1) \o <<")">>

EncodeFields(T, name, i) ==
    IF i > Len(Fields(name.kind)) THEN <<>>
    ELSE LET field == Fields(name.kind)[i] IN
         FieldPrefix(name.kind, i)
         \o EncodeValue(T, field.type, name[field.name])
         \o EncodeFields(T, name, i + 1)

EncodeVec(T, bases, i) ==
    IF i > Len(bases) THEN <<>>
    ELSE (IF i > 1 THEN <<",">> ELSE <<>>)
         \o EncodeName(T, bases[i])
         \o EncodeVec(T, bases, i + 1)

EncodeValue(T, type, value) ==
    CASE type = "Name" -> EncodeName(T, value)
      [] type = "Vec" -> <<"[">> \o EncodeVec(T, value, 1) \o <<"]">>
      [] type \in {"usize", "Rank"} -> <<ToString(value)>>
      [] type = "DataRegular" ->
            IF is_abstract(T) THEN <<"(", "(", ")", ")">>
            ELSE <<"(">> \o EncodeRegular(value[1]) \o <<")">>
      [] type = "DataPoint" ->
            IF is_abstract(T) THEN <<"(", "(", ")", ")">>
            ELSE <<"(", ToString(value[1]), ")">>

\* ron::to_string
to_string(T, name) == EncodeName(T, name)

Parsed(value, rest) == [ok |-> TRUE, value |-> value, rest |-> rest]
Failed == [ok |-> FALSE]

\* Reads the lexemes of prefix.
ParsePrefix(prefix, text) ==
    IF Len(text) >= Len(prefix) /\ SubSeq(text, 1, Len(prefix)) = prefix
    THEN Parsed(prefix, SubSeq(text, Len(prefix) + 1, Len(text)))
    ELSE Failed

ParseNumber(numbers, text) ==
    IF text # <<>> /\ \E n \in numbers : ToString(n) = text[1]
    THEN Parsed(CHOOSE n \in numbers : ToString(n) = text[1], Tail(text))
    ELSE Failed

ParseRegular(text) ==
    IF ParsePrefix(<<"No">>, text).ok THEN Parsed(RegularNo, Tail(text))
    ELSE LET opened == ParsePrefix(<<"Yes", "(", "center", ":">>, text) IN
         IF ~opened.ok THEN Failed
         ELSE LET point == ParseNumber(FloatNumbers, opened.rest) IN
              IF ~point.ok THEN Failed
              ELSE LET closed == ParsePrefix(<<")">>, point.rest) IN
                   IF ~closed.ok THEN Failed
                   ELSE Parsed(RegularYes(point.value), closed.rest)

\* The variant of the given fields.
Variant(kind, values) ==
    CASE kind \in UnitVariants -> [kind |-> kind]
      [] kind = "Triangle" -> Triangle(values[1])
      [] kind = "Polygon" -> Polygon(values[1], values[2])
      [] kind \in {"Pyramid", "Prism", "Tegum", "Antiprism", "Petrial",
                   "Small", "Great", "Stellated"} ->
            [kind |-> kind, base |-> values[1]]
      [] kind \in MultiKinds -> [kind |-> kind, bases |-> values[1]]
      [] kind \in {"Antitegum", "Dual"} ->
            [kind |-> kind, base |-> values[1], center |-> values[2]]
      [] kind \in {"Simplex", "Hyperblock", "Orthoplex"} ->
            [kind |-> kind, regular |-> values[1], rank |-> values[2]]
      [] kind = "Generic" -> Generic(values[1], values[2])

RECURSIVE ParseName(_, _)
RECURSIVE ParseValue(_, _, _)
RECURSIVE ParseFields(_, _, _, _, _)
RECURSIVE ParseVec(_, _, _)

ParseName(T, text) ==
    IF text = <<>> \/ text[1] \notin Variants THEN Failed
    ELSE LET kind == text[1] IN
         IF kind \in UnitVariants THEN Parsed([kind |-> kind], Tail(text))
         ELSE LET opened == ParsePrefix(<<"(">>, Tail(text)) IN
              IF ~opened.ok THEN Failed
              ELSE LET parsed == ParseFields(T, kind, 1, opened.rest, <<>>) IN
                   IF ~parsed.ok THEN Failed
                   ELSE LET closed == ParsePrefix(<<")">>, parsed.rest) IN
                        IF ~closed.ok THEN Failed
                        ELSE Parsed(Variant(kind, parsed.value), closed.rest)

ParseFields(T, kind, i, text, values) ==
    IF i > Len(Fields(kind)) THEN Parsed(values, text)
    ELSE LET named == ParsePrefix(FieldPrefix(kind, i), text) IN
         IF ~named.ok THEN Failed
         ELSE LET parsed == ParseValue(T, Fields(kind)[i].type, named.rest) IN
              IF ~parsed.ok THEN Failed
              ELSE ParseFields(T, kind, i + 1, parsed.rest,
                               Append(values, parsed.value))

ParseVec(T, text, bases) ==
    IF ParsePrefix(<<"]">>, text).ok THEN Parsed(bases, Tail(text))
    ELSE LET comma == IF bases = <<>> THEN Parsed(<<>>, text)
                      ELSE ParsePrefix(<<",">>, text) IN
         IF ~comma.ok THEN Failed
         ELSE LET parsed == ParseName(T, comma.rest) IN
              IF ~parsed.ok THEN Failed
              ELSE ParseVec(T, parsed.rest, Append(bases, parsed.value))

ParseValue(T, type, text) ==
    CASE type = "Name" -> ParseName(T, text)
      [] type = "Vec" ->
            LET opened == ParsePrefix(<<"[">>, text) IN
            IF ~opened.ok THEN Failed ELSE ParseVec(T, opened.rest, <<>>)
      [] type = "usize" -> ParseNumber(UsizeNumbers, text)
      [] type = "Rank" -> ParseNumber(RankNumbers, text)
      [] type \in {"DataRegular", "DataPoint"} ->
            IF is_abstract(T)
            THEN LET phantom == ParsePrefix(<<"(", "(", ")", ")">>, text) IN
                 IF ~phantom.ok THEN Failed ELSE Parsed(AbsData, phantom.rest)
            ELSE LET opened == ParsePrefix(<<"(">>, text) IN
                 IF ~opened.ok THEN Failed
                 ELSE LET parsed == IF type = "DataRegular"
                                    THEN ParseRegular(opened.rest)
                                    ELSE ParseNumber(FloatNumbers, opened.rest) IN
                      IF ~parsed.ok THEN Failed
                      ELSE LET closed == ParsePrefix(<<")">>, parsed.rest) IN
                           IF ~closed.ok THEN Failed
                           ELSE Parsed(ConData(parsed.value), closed.rest)

\* ron::from_str: the whole text is one Name.
from_str(T, text) ==
    LET parsed == ParseName(T, text) IN
    IF parsed.ok /\ parsed.rest = <<>> THEN Parsed(parsed.value, <<>>) ELSE Failed

None == [some |-> FALSE]
Some(value) == [some |-> TRUE, value |-> value]

\* from_src reading the text from the marker on.
from_src_with_marker(T, first_line) ==
    IF first_line # <<>> /\ first_line[1] = "#"
    THEN LET new_name == from_str(T, first_line) IN
         IF new_name.ok THEN Some(new_name.value) ELSE None
    ELSE None

\* from_src without the check of the marker.
from_src_any_first(T, first_line) ==
    IF Len(first_line) < 2 THEN None
    ELSE LET new_name == from_str(T, SubSeq(first_line, 2, Len(first_line)))
         IN  IF new_name.ok THEN Some(new_name.value) ELSE None

from_src(T, first_line) ==
    IF first_line # <<>> /\ first_line[1] = "#"
    THEN IF Len(first_line) < 2 THEN None
         ELSE LET idx == 2
                  new_name == from_str(T, SubSeq(first_line, idx, Len(first_line)))
              IN  IF new_name.ok THEN Some(new_name.value) ELSE None
    ELSE None

----------------------------------------------------------------------------
(* The names and arguments the model applies the operations to. *)

Centers == 0..MaxCenter
Sides == 2..MaxSides
FacetCounts == 2..MaxFacet
Ranks == -1..MaxRank

\* The values of T::DataPoint and T::DataRegular that NameData::new builds.
DataPoints(T) == {new(T, c) : c \in Centers}
DataRegulars(T) == {new(T, RegularNo)} \cup {new(T, RegularYes(c)) : c \in Centers}

RECURSIVE SumSizes(_, _)
RECURSIVE Size(_)
\* The number of nodes of a name.
Size(name) == 1 + SumSizes(Children(name), 1)
SumSizes(names, i) ==
    IF i > Len(names) THEN 0 ELSE Size(names[i]) + SumSizes(names, i + 1)

RECURSIVE MaxRankIn(_)
\* The largest rank stored in a name, -1 if it stores none.
MaxRankIn(name) ==
    LET here == IF name.kind \in {"Simplex", "Hyperblock", "Orthoplex", "Generic"}
                THEN name.rank ELSE -1
        below == {MaxRankIn(Children(name)[i]) : i \in 1..Len(Children(name))}
    IN  CHOOSE m \in {here} \cup below : \A k \in {here} \cup below : k <= m

\* The operations are applied as long as their result stays within the bounds.
Bounded(name) ==
    /\ Size(name) <= MaxSize
    /\ \/ name.kind = "Generic" /\ name.rank = MaxGenericRank
       \/ MaxRankIn(name) <= MaxRank + 1

----------------------------------------------------------------------------
(* The state machine: a caller builds names with the construction          *)
(* operations, each applied to names built before.                         *)

Init ==
    /\ ty \in NameTypes
    /\ cur = Nullitope
    /\ vec = <<>>
    /\ call = [op |-> "default"]

\* An operation returns name to a caller whose Vec is then new_vec.
Return(name, new_vec, c) ==
    /\ Bounded(name)
    /\ new_vec # <<>> => Size(name) + SumSizes(new_vec, 1) <= MaxHeld
    /\ cur' = name
    /\ vec' = new_vec
    /\ call' = c
    /\ UNCHANGED ty

DoGeneric ==
    \E n \in FacetCounts, rank \in Ranks \cup {MaxGenericRank} :
        Return(generic(ty, n, rank), vec, [op |-> "generic", n |-> n, rank |-> rank])

DoPolygon ==
    \E regular \in DataRegulars(ty), n \in Sides :
        Return(polygon(ty, regular, n), vec,
               [op |-> "polygon", regular |-> regular, n |-> n])

DoRectangle == Return(rectangle(ty), vec, [op |-> "rectangle"])

DoOrthodiagonal == Return(orthodiagonal(ty), vec, [op |-> "orthodiagonal"])

DoSimplex ==
    \E regular \in DataRegulars(ty), rank \in Ranks :
        Return(simplex(ty, regular, rank), vec,
               [op |-> "simplex", regular |-> regular, rank |-> rank])

DoHyperblock ==
    \E regular \in DataRegulars(ty), rank \in Ranks :
        Return(hyperblock(ty, regular, rank), vec,
               [op |-> "hyperblock", regular |-> regular, rank |-> rank])

DoOrthoplex ==
    \E regular \in DataRegulars(ty), rank \in Ranks :
        Return(orthoplex(ty, regular, rank), vec,
               [op |-> "orthoplex", regular |-> regular, rank |-> rank])

DoPyramid == Return(pyramid(ty, cur), vec, [op |-> "pyramid", self |-> cur])

DoPrism == Return(prism(ty, cur), vec, [op |-> "prism", self |-> cur])

DoTegum == Return(tegum(ty, cur), vec, [op |-> "tegum", self |-> cur])

DoAntiprism == Return(antiprism(ty, cur), vec, [op |-> "antiprism", self |-> cur])

DoPetrial == Return(petrial(ty, cur), vec, [op |-> "petrial", self |-> cur])

DoDual ==
    \E center \in DataPoints(ty), facet_count \in FacetCounts, rank \in Ranks :
        Return(dual(ty, cur, center, facet_count, rank), vec,
               [op |-> "dual", self |-> cur, center |-> center,
                facet_count |-> facet_count, rank |-> rank])

\* The caller moves the name it holds into the Vec it is assembling; what it
\* holds next is Name::default().
Push ==
    /\ Len(vec) < MaxVec
    /\ Size(cur) + SumSizes(vec, 1) <= MaxHeld
    /\ vec' = Append(vec, cur)
    /\ cur' = Nullitope
    /\ call' = [op |-> "push"]
    /\ UNCHANGED ty

DoMultipyramid ==
    Return(multipyramid(ty, vec), <<>>, [op |-> "multipyramid", bases |-> vec])

DoMultiprism ==
    Return(multiprism(ty, vec), <<>>, [op |-> "multiprism", bases |-> vec])

DoMultitegum ==
    Return(multitegum(ty, vec), <<>>, [op |-> "multitegum", bases |-> vec])

DoMulticomb ==
    Return(multicomb(ty, vec), <<>>, [op |-> "multicomb", bases |-> vec])

Next ==
    \/ DoGeneric
    \/ DoPolygon
    \/ DoRectangle
    \/ DoOrthodiagonal
    \/ DoSimplex
    \/ DoHyperblock
    \/ DoOrthoplex
    \/ DoPyramid
    \/ DoPrism
    \/ DoTegum
    \/ DoAntiprism
    \/ DoPetrial
    \/ DoDual
    \/ Push
    \/ DoMultipyramid
    \/ DoMultiprism
    \/ DoMultitegum
    \/ DoMulticomb

Spec == Init /\ [][Next]_vars

----------------------------------------------------------------------------
(* The properties of the construction operations. *)

\* C1: every name the construction operations return, from pre-validated
\* integer arguments, satisfies is_valid, in both instantiations.
ClosureUnderConstruction == is_valid(ty, cur)

DualInvolution ==
    call.op = "dual" =>
        dual(ty, cur, call.center, call.facet_count, call.rank) = call.self

\* C3 as amended: whenever dual returns a Dual node, that node stores the
\* name dual was applied to and the given center, and the dual of it about
\* the same center is that name.
DualOfDualNodeCancels ==
    (call.op = "dual" /\ cur.kind = "Dual") =>
        /\ cur = Dual(call.self, call.center)
        /\ dual(ty, cur, call.center, call.facet_count, call.rank) = call.self

\* dual has deferred the dual of a concrete Pyramid into a Dual node.
DualNodeReturned ==
    /\ call.op = "dual"
    /\ ty = "Con"
    /\ call.self.kind = "Pyramid"
    /\ cur.kind = "Dual"

\* In the concrete instantiation dual is applied to a Dual node that stores
\* another center than the given one.
MismatchedDual ==
    /\ call.op = "dual"
    /\ ty = "Con"
    /\ call.self.kind = "Dual"
    /\ call.center # call.self.center

\* C4 as stated: the dual of a Dual about a mismatched center is the Generic
\* name of the given integers, and it is never the base of the Dual.
MismatchedDualNeverBase ==
    MismatchedDual =>
        /\ cur = Generic(call.facet_count, call.rank)
        /\ cur # call.self.base

\* C4 as amended: the dual of a Dual about a mismatched center is the
\* Generic name of the given integers (which is the base when the base is
\* that very Generic name).
MismatchedDualIsGeneric ==
    MismatchedDual => cur = Generic(call.facet_count, call.rank)

\* A mismatched dual of a Dual whose base is another name than the result.
MismatchedDualTaken ==
    /\ MismatchedDual
    /\ cur.kind = "Generic"
    /\ call.self.base # cur

\* C5: multiprism and multitegum of a Vec that holds a Nullitope, at any
\* position, are Nullitope.
NullitopeAbsorbs ==
    (/\ call.op \in {"multiprism", "multitegum"}
     /\ \E i \in 1..Len(call.bases) : call.bases[i] = Nullitope)
        => cur = Nullitope

\* multiprism has been given a Nullitope behind a base of another kind.
NullitopeBehindBase ==
    /\ call.op = "multiprism"
    /\ Len(call.bases) = 2
    /\ call.bases[1].kind = "Generic"
    /\ call.bases[2] = Nullitope

\* C6: pyramid of a Simplex of rank >= 3 raises the rank when the regularity
\* capsule contains Regular::No, which the abstract capsule always does, and
\* wraps the unchanged Simplex in a Pyramid node when it is regular.
PyramidOfSimplexSplits ==
    (call.op = "pyramid" /\ call.self.kind = "Simplex" /\ call.self.rank >= 3) =>
        /\ ty = "Abs" => cur = Simplex(AbsData, call.self.rank + 1)
        /\ (ty = "Con" /\ call.self.regular = ConData(RegularNo)) =>
                cur = Simplex(ConData(RegularNo), call.self.rank + 1)
        /\ (ty = "Con" /\ call.self.regular # ConData(RegularNo)) =>
                /\ is_yes(call.self.regular[1])
                /\ cur = Pyramid(call.self)

\* pyramid has wrapped a regular concrete Simplex.
RegularSimplexWrapped ==
    /\ call.op = "pyramid"
    /\ ty = "Con"
    /\ call.self.kind = "Simplex"
    /\ cur.kind = "Pyramid"

\* C7 as stated: multipyramid of no base is Nullitope, of one Point is Point,
\* of two Points is Pyramid(Point).
MultipyramidOfPointsStated ==
    call.op = "multipyramid" =>
        /\ call.bases = <<>> => cur = Nullitope
        /\ call.bases = <<Point>> => cur = Point
        /\ call.bases = <<Point, Point>> => cur = Pyramid(Point)

\* C7 as amended: multipyramid of no base is Nullitope, of one Point is
\* Pyramid(Nullitope), of two Points is Dyad.
MultipyramidOfPoints ==
    call.op = "multipyramid" =>
        /\ call.bases = <<>> => cur = Nullitope
        /\ call.bases = <<Point>> => cur = Pyramid(Nullitope)
        /\ call.bases = <<Point, Point>> => cur = Dyad

\* multipyramid has been given two Points.
TwoPointsMerged ==
    /\ call.op = "multipyramid"
    /\ call.bases = <<Point, Point>>

\* The names pyramid, prism and tegum do not wrap but rewrite.
PyramidSpecialCases(T, base) ==
    \/ base.kind \in {"Nullitope", "Point", "Dyad", "Pyramid", "Multipyramid"}
    \/ base.kind \in {"Triangle", "Simplex"} /\ contains(T, base.regular, RegularNo)
PrismSpecialCases(T, base) ==
    \/ base.kind \in {"Nullitope", "Point", "Dyad", "Rectangle", "Prism", "Multiprism"}
    \/ base.kind = "Hyperblock" /\ contains(T, base.regular, RegularNo)
TegumSpecialCases(T, base) ==
    \/ base.kind \in {"Nullitope", "Point", "Dyad", "Orthodiagonal", "Tegum", "Multitegum"}
    \/ base.kind = "Orthoplex" /\ contains(T, base.regular, RegularNo)

RECURSIVE NormalForm(_, _)
\* No Pyramid, Prism or Tegum node of name has a base its operation rewrites.
NormalForm(T, name) ==
    /\ name.kind = "Pyramid" => ~PyramidSpecialCases(T, name.base)
    /\ name.kind = "Prism" => ~PrismSpecialCases(T, name.base)
    /\ name.kind = "Tegum" => ~TegumSpecialCases(T, name.base)
    /\ \A i \in 1..Len(Children(name)) : NormalForm(T, Children(name)[i])

RECURSIVE UnitNormalForm(_, _)
\* No Pyramid, Prism or Tegum node of name has a base its operation turns
\* into a name of the simplex, hyperblock or orthoplex family.
UnitNormalForm(T, name) ==
    /\ name.kind = "Pyramid" =>
            /\ PyramidSpecialCases(T, name.base)
                    => name.base.kind \in {"Nullitope", "Pyramid", "Multipyramid"}
    /\ name.kind = "Prism" =>
            /\ PrismSpecialCases(T, name.base)
                    => name.base.kind \in {"Point", "Prism", "Multiprism"}
    /\ name.kind = "Tegum" =>
            /\ TegumSpecialCases(T, name.base)
                    => name.base.kind \in {"Point", "Tegum", "Multitegum"}
    /\ \A i \in 1..Len(Children(name)) : UnitNormalForm(T, Children(name)[i])

----------------------------------------------------------------------------
(* is_valid on names instantiated directly, valid or not. *)

\* The bases given to the directly instantiated nodes.
RawBases(T) ==
    {Dyad, Square} \cup {[kind |-> k, bases |-> <<Dyad, Square>>] : k \in MultiKinds}

\* The Vecs of at most MaxVec + 1 bases.
RawVecs(T) == UNION {[1..len -> RawBases(T)] : len \in 0..(MaxVec + 1)}

RawNames(T) ==
    {Nullitope, Point, Dyad, Square, Rectangle, Orthodiagonal}
    \cup {Triangle(regular) : regular \in DataRegulars(T)}
    \cup {Polygon(regular, n) : regular \in DataRegulars(T), n \in 0..(MaxSides + 1)}
    \cup {[kind |-> k, regular |-> regular, rank |-> rank] :
            k \in {"Simplex", "Hyperblock", "Orthoplex"},
            regular \in DataRegulars(T), rank \in -1..(MaxRank + 1)}
    \cup {Generic(facet_count, rank) :
            facet_count \in 0..MaxFacet,
            rank \in (-1..(MaxRank + 1)) \cup {MaxGenericRank, MaxGenericRank + 1}}
    \cup {[kind |-> k, bases |-> bases] : k \in MultiKinds, bases \in RawVecs(T)}
    \cup {[kind |-> k, base |-> base] :
            k \in {"Pyramid", "Prism", "Tegum", "Antiprism", "Petrial",
                   "Small", "Great", "Stellated"},
            base \in RawBases(T)}
    \cup {[kind |-> k, base |-> base, center |-> center] :
            k \in {"Antitegum", "Dual"}, base \in RawBases(T),
            center \in DataPoints(T)}

InitRaw ==
    /\ ty \in NameTypes
    /\ cur \in RawNames(ty)
    /\ vec = <<>>
    /\ call = [op |-> "raw"]

DoIsValid ==
    /\ call.op = "raw"
    /\ call' = [op |-> "is_valid", self |-> cur, valid |-> is_valid(ty, cur)]
    /\ UNCHANGED <<ty, cur, vec>>

NextRaw == DoIsValid

SpecRaw == InitRaw /\ [][NextRaw]_vars

\* The root-node predicate of the table of node kinds.
TableValid(T, name) ==
    LET regular == T = "Abs" \/ name.regular[1].kind = "Yes" IN
    CASE name.kind = "Polygon" ->
            \/ name.n = 2
            \/ regular /\ name.n >= 5
            \/ ~regular /\ name.n >= 4
      [] name.kind \in {"Simplex", "Hyperblock", "Orthoplex"} -> name.rank >= 3
      [] name.kind \in {"Multipyramid", "Multiprism", "Multitegum", "Multicomb"} ->
            /\ Len(name.bases) >= 2
            /\ ~\E i \in 1..Len(name.bases) : name.bases[i].kind = name.kind
      [] name.kind = "Generic" ->
            name.facet_count >= 2 /\ 3 <= name.rank /\ name.rank <= 20
      [] OTHER -> TRUE

\* C8: is_valid is the root-node predicate of the table: it accepts a Polygon
\* iff n = 2, or it is regular (as the phantom capsule always is) and n >= 5, or
\* irregular and n >= 4; a Simplex, Hyperblock or Orthoplex iff rank >= 3; a
\* multi-operation node iff it has at least 2 bases and no base of its own
\* kind; a Generic iff facet_count >= 2 and 3 <= rank <= 20; anything else.
IsValidIsTable ==
    call.op = "is_valid" =>
        /\ call.valid = TableValid(ty, call.self)
        /\ call.self = Multipyramid(<<Dyad>>) => ~call.valid
        /\ (call.self.kind = "Polygon" /\ call.self.n = 3) => ~call.valid

\* is_valid has rejected a concrete regular Polygon of 4 sides.
RegularSquareRejected ==
    /\ call.op = "is_valid"
    /\ ty = "Con"
    /\ call.self.kind = "Polygon"
    /\ call.self.n = 4
    /\ is_yes(call.self.regular[1])
    /\ ~call.valid

----------------------------------------------------------------------------
(* from_src and from_off on the first line of any file. *)

\* A file: whether fs::File::open succeeds, and what lines() yields, each
\* line read or an error.
File(opens, lines) == [opens |-> opens, lines |-> lines]
ReadLine(line) == [ok |-> TRUE, line |-> line]
ReadError == [ok |-> FALSE]

from_off(T, path) ==
    IF ~path.opens THEN None
    ELSE IF path.lines = <<>> THEN None
    ELSE IF ~path.lines[1].ok THEN None
    ELSE from_src(T, path.lines[1].line)

\* The lexemes and the length of the lines that are no header of a Name.
LineLexemes == {"#", "Point", "Pyramid", "(", ")", "name"}
MaxLine == 4

FirstLines(T) ==
    UNION {[1..len -> LineLexemes] : len \in 0..MaxLine}
    \cup {<<"#">> \o to_string(T, name) : name \in RawNames(T)}
    \cup {to_string(T, name) : name \in RawBases(T)}
    \cup {<<"#">> \o to_string(T, name) \o <<")">> : name \in RawBases(T)}

Files(T) ==
    {File(FALSE, <<>>), File(TRUE, <<>>), File(TRUE, <<ReadError>>)}
    \cup {File(TRUE, <<ReadLine(line)>>) : line \in FirstLines(T)}
    \cup {File(TRUE, <<ReadLine(line), ReadError>>) : line \in FirstLines(T)}

InitOff ==
    /\ ty \in NameTypes
    /\ cur = Nullitope
    /\ vec = <<>>
    /\ call \in {[op |-> "file", path |-> path] : path \in Files(ty)}

DoFromOff ==
    /\ call.op = "file"
    /\ call' = [op |-> "from_off", path |-> call.path,
                result |-> from_off(ty, call.path)]
    /\ UNCHANGED <<ty, cur, vec>>

DoFromSrc ==
    /\ call.op = "file"
    /\ call.path.opens
    /\ call.path.lines # <<>>
    /\ call.path.lines[1].ok
    /\ call' = [op |-> "from_src", first_line |-> call.path.lines[1].line,
                result |-> from_src(ty, call.path.lines[1].line)]
    /\ UNCHANGED <<ty, cur, vec>>

NextOff == DoFromOff \/ DoFromSrc

SpecOff == InitOff /\ [][NextOff]_vars

\* C11: header parsing fails soft: from_src returns None when the line is
\* empty, does not start with #, has nothing after the #, or has after the #
\* a text that does not decode to a Name; it returns a Name, the decoded one,
\* only when the line starts with # and the remainder decodes; from_off
\* returns None when the file cannot be opened or its first line cannot be
\* read, and what from_src returns for the first line otherwise.
HeaderFailsSoft ==
    /\ call.op = "from_src" =>
          LET first_line == call.first_line
              marked == first_line # <<>> /\ first_line[1] = "#"
              decoded == from_str(ty, Tail(first_line)) IN
          /\ call.result = None \/ (call.result.some /\ call.result.value.kind \in Variants)
          /\ (first_line = <<>> \/ ~marked \/ Len(first_line) = 1) => call.result = None
          /\ (marked /\ ~decoded.ok) => call.result = None
          /\ call.result # None => marked /\ decoded.ok
          /\ (marked /\ decoded.ok) => call.result = Some(decoded.value)
    /\ call.op = "from_off" =>
          LET path == call.path
              unread == ~path.opens \/ path.lines = <<>> \/ ~path.lines[1].ok IN
          /\ unread => call.result = None
          /\ ~unread => call.result = from_src(ty, path.lines[1].line)

\* from_src has returned None for an encoded Name with no marker before it.
UnmarkedNameAbsent ==
    /\ call.op = "from_src"
    /\ call.first_line = to_string(ty, Multipyramid(<<Dyad, Square>>))
    /\ call.result = None

----------------------------------------------------------------------------
(* The claims on the capsules and on dual. *)

\* The values of Regular within the bounds.
Regulars == {RegularNo} \cup {RegularYes(c) : c \in Centers}

\* The construction operation op that takes a regularity capsule.
OfRegular(T, op, regular, c) ==
    CASE op = "polygon" -> polygon(T, regular, c.n)
      [] op = "simplex" -> simplex(T, regular, c.rank)
      [] op = "hyperblock" -> hyperblock(T, regular, c.rank)
      [] op = "orthoplex" -> orthoplex(T, regular, c.rank)

\* C12: phantom capsule semantics: in the abstract instantiation contains is
\* true of every value, satisfies is true of every predicate, the constantly
\* false one included, and the capsules that new makes of any two values are
\* equal; so the abstract Names built from different regularity records, or
\* dualized about different centers, are equal.
PhantomCapsule ==
    /\ (ty = "Abs" /\ call.op \in {"polygon", "simplex", "hyperblock", "orthoplex"}) =>
          \A v \in Regulars :
              /\ \A w \in Regulars : new(ty, v) = new(ty, w)
              /\ contains(ty, call.regular, v)
              /\ satisfies(ty, call.regular, LAMBDA r : FALSE)
              /\ OfRegular(ty, call.op, new(ty, v), call) = cur
    /\ (ty = "Abs" /\ call.op = "dual") =>
          \A c \in Centers :
              /\ \A d \in Centers : new(ty, c) = new(ty, d)
              /\ contains(ty, call.center, c)
              /\ satisfies(ty, call.center, LAMBDA p : FALSE)
              /\ dual(ty, call.self, new(ty, c), call.facet_count, call.rank) = cur

\* An abstract Polygon has been built: it is the Polygon of the regular record
\* and of the irregular one alike.
AbstractPolygonBuilt ==
    /\ ty = "Abs"
    /\ call.op = "polygon"
    /\ cur.kind = "Polygon"
    /\ cur = Polygon(new(ty, RegularYes(1)), 5)
    /\ cur = Polygon(new(ty, RegularNo), 5)

AntiprismAntitegumDuals ==
    /\ (call.op = "dual" /\ call.self.kind = "Antiprism") =>
          cur = [kind |-> "Antitegum", base |-> call.self.base, center |-> call.center]
    /\ (call.op = "dual" /\ call.self.kind = "Antitegum") =>
          /\ call.center = call.self.center =>
                cur = [kind |-> "Antiprism", base |-> call.self.base]
          /\ call.center # call.self.center =>
                cur = [kind |-> "Dual", base |-> call.self, center |-> call.center]

\* The dual of a concrete Antitegum has been taken about another center.
AntitegumWrapped ==
    /\ ty = "Con"
    /\ call.op = "dual"
    /\ call.self.kind = "Antitegum"
    /\ call.center # call.self.center
    /\ cur.kind = "Dual"
    /\ cur.base = call.self

\* C15: the dual of a regular-capable shape is the dual node kind (Triangle,
\* Polygon of the same n, Simplex, and Hyperblock for Orthoplex and Orthoplex
\* for Hyperblock, of the same rank); its regularity record is the shape's own
\* when that is Yes about a center matching the given one within the
\* tolerance, and the default, not regular, record when the shape is regular
\* about a center that does not match it.
RegularDual ==
    (/\ call.op = "dual"
     /\ call.self.kind \in {"Triangle", "Polygon", "Simplex", "Hyperblock", "Orthoplex"}) =>
        LET self == call.self
            kind == CASE self.kind = "Hyperblock" -> "Orthoplex"
                      [] self.kind = "Orthoplex" -> "Hyperblock"
                      [] OTHER -> self.kind
            regular_yes == ty = "Con" /\ self.regular[1].kind = "Yes"
            distance == IF call.center[1] >= self.regular[1].center
                        THEN call.center[1] - self.regular[1].center
                        ELSE self.regular[1].center - call.center[1]
        IN  /\ cur.kind = kind
            /\ self.kind = "Polygon" => cur.n = self.n
            /\ self.kind \in {"Simplex", "Hyperblock", "Orthoplex"} => cur.rank = self.rank
            /\ DOMAIN cur = DOMAIN self
            /\ (regular_yes /\ distance < EPS) => cur.regular = self.regular
            /\ (regular_yes /\ ~(distance < EPS)) => cur.regular = <<[kind |-> "No"]>>
            /\ ~regular_yes => cur.regular = self.regular

\* The dual of a concrete Hyperblock regular about one center has been taken
\* about a center farther than the tolerance: an Orthoplex that is not regular.
RegularHyperblockOffCenter ==
    /\ ty = "Con"
    /\ call.op = "dual"
    /\ call.self.kind = "Hyperblock"
    /\ call.self.regular = ConData(RegularYes(0))
    /\ call.center = ConData(EPS)
    /\ cur = Orthoplex(ConData(RegularNo), call.self.rank)

\* C16: prism and tegum mirror the rank-2 rule of pyramid in both
\* instantiations: the prism of rectangle() is the Hyperblock of rank 3 with
\* the default regularity, and the tegum of orthodiagonal() is the Orthoplex
\* of rank 3 with the default regularity.
PrismTegumRankTwo ==
    /\ (call.op = "prism" /\ call.self = rectangle(ty)) =>
          cur = Hyperblock(DefaultRegular(ty), 3)
    /\ (call.op = "tegum" /\ call.self = orthodiagonal(ty)) =>
          cur = Orthoplex(DefaultRegular(ty), 3)

\* The number of successive pyramids the claims look at.
MaxTimes == 5

RECURSIVE PyramidTimes(_, _, _)
\* pyramid applied k times to name.
PyramidTimes(T, name, k) ==
    IF k = 0 THEN name ELSE pyramid(T, PyramidTimes(T, name, k - 1))

\* The names on which pyramid takes its default branch.
PyramidDefaultBranch(name) ==
    name.kind \notin {"Nullitope", "Point", "Dyad", "Triangle", "Simplex",
                      "Pyramid", "Multipyramid"}

\* C17: successive pyramids collapse into one simplex: pyramid applied k times
\* to Nullitope gives simplex(default, k - 1), and applied k >= 2 times to a
\* base x on which it takes its default branch gives
\* Multipyramid([x, simplex(default, k - 1)]).
SuccessivePyramids ==
    /\ cur = Nullitope =>
          \A k \in 0..MaxTimes :
              PyramidTimes(ty, cur, k) = simplex(ty, DefaultRegular(ty), k - 1)
    /\ PyramidDefaultBranch(cur) =>
          \A k \in 2..MaxTimes :
              PyramidTimes(ty, cur, k)
                  = [kind |-> "Multipyramid",
                     bases |-> <<cur, simplex(ty, DefaultRegular(ty), k - 1)>>]
    /\ (call.op = "pyramid" /\ PyramidDefaultBranch(call.self)) =>
          cur = [kind |-> "Pyramid", base |-> call.self]

\* pyramid has been applied three times to a Generic.
ThreePyramidsOfGeneric ==
    /\ call.op = "pyramid"
    /\ cur.kind = "Multipyramid"
    /\ Len(cur.bases) = 2
    /\ cur.bases[1].kind = "Generic"
    /\ cur.bases[2].kind = "Triangle"
    /\ cur = PyramidTimes(ty, cur.bases[1], 3)

----------------------------------------------------------------------------
(* The mergers on Vecs of constructed names. *)

\* The number of bases of a Vec given to a merger.
MaxBases == 3

\* Names built by the construction operations, among them the units each
\* merger absorbs, nodes of each multi-operation and single wraps.
MergeBases(T) ==
    LET g == generic(T, 2, 3)
        p == polygon(T, DefaultRegular(T), 5)
    IN  {Nullitope, Point, Dyad, Square, rectangle(T), orthodiagonal(T), g, p}
        \cup {simplex(T, regular, rank) : regular \in DataRegulars(T), rank \in {2, 3}}
        \cup {hyperblock(T, DefaultRegular(T), 3), orthoplex(T, DefaultRegular(T), 3)}
        \cup {pyramid(T, g), prism(T, g), tegum(T, g)}
        \cup {multipyramid(T, <<g, p>>), multiprism(T, <<g, p>>),
              multitegum(T, <<g, p>>), multicomb(T, <<g, p>>)}
        \cup {multipyramid(T, <<g, Dyad>>), multiprism(T, <<g, Dyad, Dyad>>),
              multitegum(T, <<g, Dyad, Dyad>>)}

BaseVecs(T) == UNION {[1..len -> MergeBases(T)] : len \in 0..MaxBases}

InitMerge ==
    /\ ty \in NameTypes
    /\ cur = Nullitope
    /\ vec \in BaseVecs(ty)
    /\ call = [op |-> "bases"]

\* A merger takes the Vec and returns name.
Merged(op, name) ==
    /\ call.op = "bases"
    /\ cur' = name
    /\ vec' = <<>>
    /\ call' = [op |-> op, bases |-> vec]
    /\ UNCHANGED ty

MergeMultipyramid == Merged("multipyramid", multipyramid(ty, vec))

MergeMultiprism == Merged("multiprism", multiprism(ty, vec))

MergeMultitegum == Merged("multitegum", multitegum(ty, vec))

MergeMulticomb == Merged("multicomb", multicomb(ty, vec))

NextMerge ==
    \/ MergeMultipyramid
    \/ MergeMultiprism
    \/ MergeMultitegum
    \/ MergeMulticomb

SpecMerge == InitMerge /\ [][NextMerge]_vars

\* What a base adds to pyramid_count.
PyramidUnits(base) ==
    CASE base.kind = "Point" -> 1
      [] base.kind = "Dyad" -> 2
      [] base.kind = "Triangle" -> 3
      [] base.kind = "Simplex" -> base.rank + 1
      [] OTHER -> 0

RECURSIVE PyramidUnitsFrom(_, _)
PyramidUnitsFrom(bases, i) ==
    IF i > Len(bases) THEN 0
    ELSE PyramidUnits(bases[i]) + PyramidUnitsFrom(bases, i + 1)

RECURSIVE PushedFrom(_, _, _, _)
\* The bases from the i-th on that are pushed, in their order: none for a
\* base of the kinds left out, the bases of a node of the kind spliced, the
\* base itself otherwise.
PushedFrom(bases, i, spliced, left_out) ==
    IF i > Len(bases) THEN <<>>
    ELSE (CASE bases[i].kind \in left_out -> <<>>
            [] bases[i].kind = spliced -> bases[i].bases
            [] OTHER -> <<bases[i]>>)
         \o PushedFrom(bases, i + 1, spliced, left_out)

\* The four steps of the merge, for the kinds that the walk leaves out.
FourStepMerge(T, bases, left_out) ==
    LET pyramid_count == PyramidUnitsFrom(bases, 1)
        output == PushedFrom(bases, 1, "Multipyramid", left_out)
                  \o (IF pyramid_count >= 2
                      THEN <<simplex(T, DefaultRegular(T), pyramid_count - 1)>>
                      ELSE <<>>)
        merged == CASE Len(output) = 0 -> [kind |-> "Nullitope"]
                    [] Len(output) = 1 -> output[1]
                    [] OTHER -> [kind |-> "Multipyramid", bases |-> output]
    IN  IF pyramid_count = 1 THEN [kind |-> "Pyramid", base |-> merged] ELSE merged

\* C18 as stated: multipyramid is the four-step merge in which Point, Dyad,
\* Triangle and Simplex are not pushed but counted, a nested Multipyramid is
\* spliced, and every other base is pushed as it is.
FourStepMergeStated ==
    call.op = "multipyramid" =>
        cur = FourStepMerge(ty, call.bases, {"Point", "Dyad", "Triangle", "Simplex"})

\* C18, amended: multipyramid is the four-step merge in which a Nullitope is
\* dropped, Point, Dyad, Triangle and Simplex{rank} are not pushed but add 1,
\* 2, 3 and rank + 1 to pyramid_count, a nested Multipyramid is spliced in
\* place and every other base is pushed as it is; one simplex(default,
\* pyramid_count - 1) is appended if pyramid_count >= 2; an output list of
\* length 0 becomes Nullitope, of length 1 its element, longer a Multipyramid;
\* and the result is wrapped in one Pyramid exactly when pyramid_count = 1.
FourStepMergeDropsNullitope ==
    call.op = "multipyramid" =>
        cur = FourStepMerge(ty, call.bases,
                            {"Nullitope", "Point", "Dyad", "Triangle", "Simplex"})

\* multipyramid has merged a Nullitope, a nested Multipyramid and a Point:
\* the Nullitope is dropped, the list spliced and the one unit wrapped.
NullitopeDroppedFromMerge ==
    /\ call.op = "multipyramid"
    /\ Len(call.bases) = 3
    /\ call.bases[1] = Nullitope
    /\ call.bases[2].kind = "Multipyramid"
    /\ call.bases[3] = Point
    /\ cur = Pyramid(call.bases[2])

\* The variant each merger builds and the kinds of bases its walk does not
\* push.
MergerKind(op) ==
    CASE op = "multipyramid" -> "Multipyramid"
      [] op = "multiprism" -> "Multiprism"
      [] op = "multitegum" -> "Multitegum"
      [] op = "multicomb" -> "Multicomb"

MergerAbsorbed(op) ==
    CASE op = "multipyramid" -> {"Nullitope", "Point", "Dyad", "Triangle", "Simplex"}
      [] op = "multiprism" -> {"Point", "Dyad", "Square", "Rectangle", "Hyperblock"}
      [] op = "multitegum" -> {"Point", "Dyad", "Square", "Orthodiagonal", "Orthoplex"}
      [] op = "multicomb" -> {}

\* The kinds of the entry that stands for the absorbed bases.
MergerCombined(op) ==
    CASE op = "multipyramid" -> {"Dyad", "Triangle", "Simplex"}
      [] op = "multiprism" -> {"Square", "Rectangle", "Hyperblock"}
      [] op = "multitegum" -> {"Square", "Orthodiagonal", "Orthoplex"}
      [] op = "multicomb" -> {}

\* C19: order preservation in the four mergers: in the base list of the node
\* that multipyramid, multiprism, multitegum or multicomb returns, the bases
\* that are not absorbed are in the order of the input, the bases of a nested
\* node of the same kind in the place of that node, and the one combined
\* Simplex, Hyperblock or Orthoplex entry, when there is one, is the last.
MergersKeepOrder ==
    (/\ call.op \in {"multipyramid", "multiprism", "multitegum", "multicomb"}
     /\ cur.kind = MergerKind(call.op)) =>
        LET kept == PushedFrom(call.bases, 1, MergerKind(call.op), MergerAbsorbed(call.op))
            absorbed == \E i \in 1..Len(call.bases) :
                            call.bases[i].kind \in MergerAbsorbed(call.op) \ {"Nullitope", "Point"}
                            \/ (call.op = "multipyramid" /\ call.bases[i].kind = "Point")
        IN  \/ cur.bases = kept
            \/ /\ absorbed
               /\ Len(cur.bases) = Len(kept) + 1
               /\ SubSeq(cur.bases, 1, Len(kept)) = kept
               /\ cur.bases[Len(cur.bases)].kind \in MergerCombined(call.op)

\* multiprism has merged a Hyperblock, a Multiprism and a Generic: the bases
\* of the Multiprism, the Generic, and the combined Hyperblock last.
PrismsMergedInOrder ==
    /\ call.op = "multiprism"
    /\ Len(call.bases) = 3
    /\ call.bases[1].kind = "Hyperblock"
    /\ call.bases[2].kind = "Multiprism"
    /\ call.bases[3].kind = "Generic"
    /\ cur.kind = "Multiprism"
    /\ cur.bases = call.bases[2].bases \o <<call.bases[3], call.bases[1]>>

\* The merger op applied to bases.
Merger(T, op, bases) ==
    CASE op = "multipyramid" -> multipyramid(T, bases)
      [] op = "multiprism" -> multiprism(T, bases)
      [] op = "multitegum" -> multitegum(T, bases)
      [] op = "multicomb" -> multicomb(T, bases)

\* C20: flattening makes the mergers associative: for all lists xs and ys of
\* constructed names, merging the merge of xs followed by ys gives the same
\* name as merging xs followed by ys at once, for multipyramid, multiprism,
\* multitegum and multicomb.
MergersAssociative ==
    call.op \in {"multipyramid", "multiprism", "multitegum", "multicomb"} =>
        \A k \in 0..Len(call.bases) :
            LET xs == SubSeq(call.bases, 1, k)
                ys == SubSeq(call.bases, k + 1, Len(call.bases))
            IN  Merger(ty, call.op, <<Merger(ty, call.op, xs)>> \o ys) = cur

RECURSIVE HasKind(_, _)
\* Whether name is or contains a node of one of the kinds.
HasKind(name, kinds) ==
    \/ name.kind \in kinds
    \/ \E i \in 1..Len(Children(name)) : HasKind(Children(name)[i], kinds)

\* C21: abstract names never distinguish a rectangle or an orthodiagonal from
\* a square: in the abstract instantiation no name that the construction
\* operations produce is or contains a Rectangle or an Orthodiagonal node.
AbstractNeverRectangle ==
    ty = "Abs" =>
        /\ ~HasKind(cur, {"Rectangle", "Orthodiagonal"})
        /\ \A i \in 1..Len(vec) : ~HasKind(vec[i], {"Rectangle", "Orthodiagonal"})

----------------------------------------------------------------------------
(* VertexLoop of the renderer: a map from vertices to indices and, for each *)
(* index, the Pair of the vertices it is connected to.  Indices are the     *)
(* code's, from 0; edges[idx] of the code is edges[idx + 1] here.           *)

MaxVertex == 4

\* The values of T.
Vertices == 1..MaxVertex

PairNone == [kind |-> "None"]
One(first) == [kind |-> "One", first |-> first]
Two(first, second) == [kind |-> "Two", first |-> first, second |-> second]

\* Whether Pair::push panics.
PairPushPanics(self) == self.kind = "Two"

\* Pair::push, where it does not panic.
PairPush(self, value) ==
    CASE self.kind = "None" -> One(value)
      [] self.kind = "One" -> Two(self.first, value)

\* VertexLoop::new
VertexLoopNew == [vertex_map |-> <<>>, edges |-> <<>>]

\* VertexLoop::index_mut: the loop it leaves and the index it returns.
index_mut(self, vertex) ==
    LET len == Cardinality(DOMAIN self.vertex_map) IN
    IF vertex \in DOMAIN self.vertex_map
    THEN [self |-> self, idx |-> self.vertex_map[vertex]]
    ELSE [self |-> [vertex_map |-> [v \in DOMAIN self.vertex_map \cup {vertex} |->
                                        IF v = vertex THEN len ELSE self.vertex_map[v]],
                    edges |-> Append(self.edges, PairNone)],
          idx |-> len]

\* VertexLoop::index
index(self, vertex) ==
    IF vertex \in DOMAIN self.vertex_map THEN Some(self.vertex_map[vertex]) ELSE None

\* VertexLoop::push: whether it panics, and the loop it leaves when it does not.
VertexLoopPush(self, vertex0, vertex1) ==
    LET r0 == index_mut(self, vertex0)
        r1 == index_mut(r0.self, vertex1)
        idx0 == r0.idx
        idx1 == r1.idx
        edges == r1.self.edges
    IN  IF PairPushPanics(edges[idx0 + 1]) THEN [panics |-> TRUE]
        ELSE LET edges0 == [edges EXCEPT ![idx0 + 1] = PairPush(@, vertex1)] IN
             IF PairPushPanics(edges0[idx1 + 1]) THEN [panics |-> TRUE]
             ELSE [panics |-> FALSE,
                   self |-> [vertex_map |-> r1.self.vertex_map,
                             edges |-> [edges0 EXCEPT ![idx1 + 1] = PairPush(@, vertex0)]]]

\* VertexLoop::edge
edge(self, idx) ==
    IF idx >= Len(self.edges) THEN None
    ELSE IF self.edges[idx + 1].kind = "Two"
         THEN Some(<<self.edges[idx + 1].first, self.edges[idx + 1].second>>)
         ELSE None

\* VertexLoop::len
len(self) == Len(self.edges)

\* What cycle gives when its loop never breaks.
Diverges == [some |-> FALSE, diverges |-> TRUE]

\* The loop of cycle is driven by (prev_idx, idx) alone: when it has not
\* broken after len * len + 1 turns it is in a pair it was in before.
MaxTurns(self) == len(self) * len(self) + 1

RECURSIVE CycleLoop(_, _, _, _, _)
\* The loop of cycle, from its turn-th turn on.
CycleLoop(self, prev_idx, idx, cycle, turn) ==
    IF turn > MaxTurns(self) THEN Diverges
    ELSE LET e == edge(self, idx) IN
         IF ~e.some THEN None
         ELSE LET v0 == e.value[1]
                  v1 == e.value[2]
                  idx0 == index(self, v0).value
                  idx1 == index(self, v1).value
                  next_idx == IF idx0 = prev_idx THEN idx1 ELSE idx0
                  next_cycle == IF idx0 = prev_idx THEN Append(cycle, v1)
                                ELSE Append(cycle, v0)
              IN  IF next_idx = 0
                  THEN IF Len(next_cycle) = len(self) THEN Some(next_cycle) ELSE None
                  ELSE CycleLoop(self, idx, next_idx, next_cycle, turn + 1)

\* VertexLoop::cycle
cycle(self) ==
    LET e == edge(self, 0) IN
    IF ~e.some THEN None
    ELSE LET v == e.value[1] IN
         CycleLoop(self, 0, index(self, v).value, <<v>>, 1)

\* A new loop.
InitLoop ==
    /\ ty = "Abs"
    /\ cur = Nullitope
    /\ vec = <<>>
    /\ call = [op |-> "new", self |-> VertexLoopNew, pushed |-> <<>>]

\* A call of push on the loop; a panic ends the run.
DoPush ==
    /\ call.op \in {"new", "push", "cycle"}
    /\ \E vertex0 \in Vertices, vertex1 \in Vertices :
        LET r == VertexLoopPush(call.self, vertex0, vertex1) IN
        call' = IF r.panics
                THEN [op |-> "panic", self |-> call.self,
                      pushed |-> Append(call.pushed, <<vertex0, vertex1>>)]
                ELSE [op |-> "push", self |-> r.self,
                      pushed |-> Append(call.pushed, <<vertex0, vertex1>>)]
    /\ UNCHANGED <<ty, cur, vec>>

\* A call of cycle on the loop.
DoCycle ==
    /\ call.op \in {"new", "push"}
    /\ call' = [op |-> "cycle", self |-> call.self, pushed |-> call.pushed,
                result |-> cycle(call.self)]
    /\ UNCHANGED <<ty, cur, vec>>

NextLoop == DoPush \/ DoCycle

SpecLoop == InitLoop /\ [][NextLoop]_vars

\* The number of pushed edges that join a and b.
Pushed(pushed, a, b) ==
    Cardinality({i \in 1..Len(pushed) : pushed[i] \in {<<a, b>>, <<b, a>>}})

\* The number of edges of the closed loop c that join a and b.
Closing(c, a, b) ==
    Cardinality({i \in 1..Len(c) : {c[i], c[(i % Len(c)) + 1]} = {a, b}})

\* The vertices that were pushed.
PushedVertices(pushed) ==
    {pushed[i][1] : i \in 1..Len(pushed)} \cup {pushed[i][2] : i \in 1..Len(pushed)}

\* The arrangements of the vertices in a sequence, each once.
Arrangements(vertices) ==
    {c \in [1..Cardinality(vertices) -> vertices] :
        \A i, j \in 1..Cardinality(vertices) : c[i] = c[j] => i = j}

\* The pushed edges are those of one closed loop through all the vertices.
SingleLoop(pushed) ==
    /\ pushed # <<>>
    /\ \E c \in Arrangements(PushedVertices(pushed)) :
        \A a, b \in PushedVertices(pushed) : Pushed(pushed, a, b) = Closing(c, a, b)

\* c has length len(), holds every vertex once, and its cyclically
\* consecutive entries are joined by a pushed edge.
CyclicOrder(self, pushed, c) ==
    /\ Len(c) = len(self)
    /\ c \in Arrangements(PushedVertices(pushed))
    /\ \A i \in 1..Len(c) : Pushed(pushed, c[i], c[(i % Len(c)) + 1]) > 0

\* What is stated of the result of cycle.
CycleResult ==
    /\ call.result # Diverges
    /\ call.result.some <=> SingleLoop(call.pushed)
    /\ call.result.some => CyclicOrder(call.self, call.pushed, call.result.value)

\* No push joins a vertex to itself.
NoSelfLoop(pushed) == \A i \in 1..Len(pushed) : pushed[i][1] # pushed[i][2]

\* C22: cycle on a loop built by pushes in which no vertex receives a third
\* edge always ends, and it returns Some(c) exactly when the pushed edges form
\* a single closed loop through all the vertices, c then being of length
\* len(), holding every vertex once, with cyclically consecutive entries
\* joined by a pushed edge; otherwise it returns None.
CycleStated == call.op = "cycle" => CycleResult

\* The same when no push joins a vertex to itself.
CycleStatedOfProperEdges ==
    (call.op = "cycle" /\ NoSelfLoop(call.pushed)) => CycleResult

\* The part of it on what cycle returns: a returned c is a cyclic order.
CycleReturnsCyclicOrder ==
    (call.op = "cycle" /\ call.result.some) =>
        CyclicOrder(call.self, call.pushed, call.result.value)

\* cycle has returned the cyclic order of a triangle.
TriangleCycled ==
    /\ call.op = "cycle"
    /\ call.result.some
    /\ Len(call.result.value) = 3

====
